---- MODULE Spec2Model ----
(***************************************************************************)
(* Model of src/lambda/transform.py: the Lambda handler that loads a       *)
(* collection of cocktail recipes from S3, enriches every record with      *)
(* derived metadata, writes the enriched collection back to S3 and a       *)
(* processing summary to DynamoDB.                                         *)
(*                                                                         *)
(* Representation.  A Python str is a sequence of one-character strings,   *)
(* so that lower(), the `in` substring test, join, split and count are     *)
(* computed character by character.  A Python dict is a function whose     *)
(* DOMAIN is the set of its keys.  A JSON amount is [num |-> h] (a number, *)
(* in hundredths), [str |-> s] (a string) or [null |-> TRUE].  Complexity  *)
(* scores are counted in halves of a point (0.5 is 1, 10.0 is 20); all the *)
(* terms of the score are multiples of 0.5.  An operation that can raise   *)
(* returns [raised |-> "none", value |-> v] or [raised |-> <exception>].   *)
(***************************************************************************)
EXTENDS Integers, Sequences, FiniteSets, TLC

VARIABLES pc, event, cocktail_data, enriched_data, s3_output, dynamodb_item,
          response, raised, trace, log, clock, recipe, ret

vars == <<pc, event, cocktail_data, enriched_data, s3_output, dynamodb_item,
          response, raised, trace, log, clock, recipe, ret>>

handler_vars == <<pc, event, cocktail_data, enriched_data, s3_output,
                  dynamodb_item, response, raised, trace, log, clock>>

deriver_vars == <<recipe, ret>>

(***************************** Python built-ins ****************************)

Min2(a, b) == IF a <= b THEN a ELSE b

Max2(a, b) == IF a >= b THEN a ELSE b

RECURSIVE SumSeq(_)
SumSeq(s) == IF s = <<>> THEN 0 ELSE s[1] + SumSeq(Tail(s))

Range(s) == {s[i] : i \in 1..Len(s)}

\* dict.get(key, default)
Get(d, key, default) == IF key \in DOMAIN d THEN d[key] ELSE default

\* d[key] = value
Put(d, key, value) ==
    [k \in DOMAIN d \cup {key} |-> IF k = key THEN value ELSE d[k]]

UpperCase == <<"A","B","C","D","E","F","G","H","I","J","K","L","M",
               "N","O","P","Q","R","S","T","U","V","W","X","Y","Z">>

LowerCase == <<"a","b","c","d","e","f","g","h","i","j","k","l","m",
               "n","o","p","q","r","s","t","u","v","w","x","y","z">>

\* str.lower()
lower(s) ==
    [i \in 1..Len(s) |->
        IF \E j \in 1..Len(UpperCase) : UpperCase[j] = s[i]
        THEN LowerCase[CHOOSE j \in 1..Len(UpperCase) : UpperCase[j] = s[i]]
        ELSE s[i]]

\* sub in s
Contains(sub, s) ==
    \E i \in 0..(Len(s) - Len(sub)) : SubSeq(s, i + 1, i + Len(sub)) = sub

\* any(k in s for k in keys), keys a sequence of strings
AnyIn(keys, s) == \E j \in 1..Len(keys) : Contains(keys[j], s)

\* s.count(ch) for a one-character ch
Count(s, ch) == Cardinality({i \in 1..Len(s) : s[i] = ch})

\* len(s.split()): the number of maximal runs of non-blank characters
WordCount(s) ==
    Cardinality({i \in 1..Len(s) : s[i] # " " /\ (i = 1 \/ s[i - 1] = " ")})

\* sep.join(parts)
RECURSIVE Join(_, _)
Join(sep, parts) ==
    IF parts = <<>> THEN <<>>
    ELSE IF Len(parts) = 1 THEN parts[1]
    ELSE parts[1] \o sep \o Join(sep, Tail(parts))

\* list(set(xs)): the distinct elements of xs, in an order the language
\* does not fix
RECURSIVE ListOfSet(_)
ListOfSet(xs) ==
    IF xs = {} THEN <<>>
    ELSE LET x == CHOOSE y \in xs : TRUE IN <<x>> \o ListOfSet(xs \ {x})

DigitChars == <<"0","1","2","3","4","5","6","7","8","9">>

IsDigits(s) == \A i \in 1..Len(s) : \E d \in 1..10 : DigitChars[d] = s[i]

RECURSIVE DigitsValue(_)
DigitsValue(s) ==
    IF s = <<>> THEN 0
    ELSE 10 * DigitsValue(SubSeq(s, 1, Len(s) - 1))
         + (CHOOSE d \in 0..9 : DigitChars[d + 1] = s[Len(s)])

\* str(n) for an integer n >= 0
RECURSIVE str_int(_)
str_int(n) ==
    IF n < 10 THEN <<DigitChars[n + 1]>>
    ELSE str_int(n \div 10) \o <<DigitChars[(n % 10) + 1]>>

\* s.strip(), blanks only
strip(s) ==
    LET solid == {i \in 1..Len(s) : s[i] # " "}
    IN IF solid = {} THEN <<>>
       ELSE SubSeq(s, CHOOSE i \in solid : \A j \in solid : i <= j,
                      CHOOSE i \in solid : \A j \in solid : i >= j)

\* The digits before and after the point, as a number of hundredths.
decimal_of_parts(whole, frac) ==
    IF /\ IsDigits(whole) /\ IsDigits(frac)
       /\ Len(whole) + Len(frac) > 0
       /\ Len(frac) <= 2
    THEN [raised |-> "none",
          value |-> 100 * DigitsValue(whole)
                    + (IF Len(frac) = 1 THEN 10 * DigitsValue(frac)
                       ELSE DigitsValue(frac))]
    ELSE [raised |-> "ValueError"]

\* An unsigned decimal: digits with at most one point.
decimal_of_str(u) ==
    LET points == {i \in 1..Len(u) : u[i] = "."}
    IN IF points = {} THEN decimal_of_parts(u, <<>>)
       ELSE decimal_of_parts(
              SubSeq(u, 1, (CHOOSE i \in points : \A j \in points : i <= j) - 1),
              SubSeq(u, (CHOOSE i \in points : \A j \in points : i <= j) + 1,
                     Len(u)))

negated(r) ==
    IF r.raised = "none" THEN [raised |-> "none", value |-> 0 - r.value] ELSE r

float_of_stripped(t) ==
    IF t # <<>> /\ t[1] = "-" THEN negated(decimal_of_str(Tail(t)))
    ELSE IF t # <<>> /\ t[1] = "+" THEN decimal_of_str(Tail(t))
    ELSE decimal_of_str(t)

\* float(s) for a str: surrounding blanks are stripped, then an optional
\* sign, digits and at most one point; anything else is a ValueError.  The
\* value is in hundredths, so at most two decimals are read (the amounts
\* enumerated below have no more).
float_of_str(s) == float_of_stripped(strip(s))

\* float(x) for a JSON value
float(x) ==
    IF "num" \in DOMAIN x THEN [raised |-> "none", value |-> x.num]
    ELSE IF "str" \in DOMAIN x THEN float_of_str(x.str)
    ELSE [raised |-> "TypeError"]

\* int(calories_per_oz * amount): the product truncated towards zero,
\* amount in hundredths
int_of_product(calories_per_oz, amount) ==
    LET p == calories_per_oz * amount
    IN IF p >= 0 THEN p \div 100 ELSE 0 - ((0 - p) \div 100)

\* ingredient.get('name', '').lower()
name_of(ingredient) == lower(Get(ingredient, "name", <<>>))

(****************************** Field derivers *****************************)

specialty_ingredients ==
    <<<<"e","l","d","e","r","f","l","o","w","e","r">>, <<"o","r","g","e","a","t">>, <<"f","a","l","e","r","n","u","m">>, <<"a","m","a","r","o">>, <<"c","h","a","r","t","r","e","u","s","e">>>>

fresh_indicators == <<<<"j","u","i","c","e">>, <<"m","i","n","t">>, <<"l","e","m","o","n">>, <<"l","i","m","e">>, <<"o","r","a","n","g","e">>>>

\* A faulty variant: it returns the score without the final min(score, 10.0).
calculate_complexity_score_uncapped(ingredients) ==
    LET base == Min2(Len(ingredients) * 1, 6)
        specialty == SumSeq([i \in 1..Len(ingredients) |->
                       IF AnyIn(specialty_ingredients, name_of(ingredients[i]))
                       THEN 2 ELSE 0])
        fresh == SumSeq([i \in 1..Len(ingredients) |->
                       IF AnyIn(fresh_indicators, name_of(ingredients[i]))
                       THEN 1 ELSE 0])
    IN base + specialty + fresh

\* The result is in halves of a point.
calculate_complexity_score(ingredients) ==
    LET base == Min2(Len(ingredients) * 1, 6)
        specialty == SumSeq([i \in 1..Len(ingredients) |->
                       IF AnyIn(specialty_ingredients, name_of(ingredients[i]))
                       THEN 2 ELSE 0])
        fresh == SumSeq([i \in 1..Len(ingredients) |->
                       IF AnyIn(fresh_indicators, name_of(ingredients[i]))
                       THEN 1 ELSE 0])
    IN Min2(base + specialty + fresh, 20)

estimate_prep_time(ingredients, instructions) ==
    LET muddle == IF Contains(<<"m","u","d","d","l","e">>, lower(instructions)) THEN 2 ELSE 0
        shake == IF Contains(<<"s","h","a","k","e">>, lower(instructions)) THEN 1 ELSE 0
        steps == Count(instructions, ".") + Count(instructions, ";")
    IN Min2(3 + muddle + shake + Max2(0, steps - 2), 15)

spirit_map ==
    << [spirit |-> <<"v","o","d","k","a">>, keywords |-> <<<<"v","o","d","k","a">>, <<"a","b","s","o","l","u","t">>, <<"s","m","i","r","n","o","f","f">>>>],
       [spirit |-> <<"g","i","n">>, keywords |-> <<<<"g","i","n">>, <<"h","e","n","d","r","i","c","k">>, <<"t","a","n","q","u","e","r","a","y">>>>],
       [spirit |-> <<"r","u","m">>, keywords |-> <<<<"r","u","m">>, <<"b","a","c","a","r","d","i">>, <<"h","a","v","a","n","a"," ","c","l","u","b">>>>],
       [spirit |-> <<"t","e","q","u","i","l","a">>, keywords |-> <<<<"t","e","q","u","i","l","a">>, <<"p","a","t","r","o","n">>, <<"r","e","p","o","s","a","d","o">>>>],
       [spirit |-> <<"w","h","i","s","k","e","y">>,
        keywords |-> <<<<"w","h","i","s","k","e","y">>, <<"b","o","u","r","b","o","n">>, <<"s","c","o","t","c","h">>, <<"r","y","e">>>>],
       [spirit |-> <<"b","r","a","n","d","y">>, keywords |-> <<<<"b","r","a","n","d","y">>, <<"c","o","g","n","a","c">>, <<"a","r","m","a","g","n","a","c">>>>] >>

non_alcoholic == <<"n","o","n","-","a","l","c","o","h","o","l","i","c">>

\* A faulty variant: it scans ingredient by ingredient and, for each, the spirit keys
\* in order: the first ingredient decides instead of the first key.
RECURSIVE spirit_scan_by_ingredient(_, _)
spirit_scan_by_ingredient(i, ingredients) ==
    IF i > Len(ingredients) THEN non_alcoholic
    ELSE LET hits == {k \in 1..Len(spirit_map) :
                        AnyIn(spirit_map[k].keywords, name_of(ingredients[i]))}
         IN IF hits # {}
            THEN spirit_map[CHOOSE k \in hits : \A j \in hits : k <= j].spirit
            ELSE spirit_scan_by_ingredient(i + 1, ingredients)

identify_spirit_type_ingredient_major(ingredients) ==
    spirit_scan_by_ingredient(1, ingredients)

\* A faulty variant: it compares the name with the keyword (name == keyword) instead
\* of searching the keyword in the name.
RECURSIVE spirit_scan_exact(_, _)
spirit_scan_exact(k, ingredients) ==
    IF k > Len(spirit_map) THEN non_alcoholic
    ELSE IF \E i \in 1..Len(ingredients) :
               name_of(ingredients[i]) \in Range(spirit_map[k].keywords)
         THEN spirit_map[k].spirit
         ELSE spirit_scan_exact(k + 1, ingredients)

identify_spirit_type_exact(ingredients) == spirit_scan_exact(1, ingredients)

\* for spirit, keywords in spirit_map.items(): for ingredient in ingredients
RECURSIVE spirit_scan(_, _)
spirit_scan(k, ingredients) ==
    IF k > Len(spirit_map) THEN non_alcoholic
    ELSE IF \E i \in 1..Len(ingredients) :
               AnyIn(spirit_map[k].keywords, name_of(ingredients[i]))
         THEN spirit_map[k].spirit
         ELSE spirit_scan(k + 1, ingredients)

identify_spirit_type(ingredients) == spirit_scan(1, ingredients)

calorie_map ==
    << [key |-> <<"r","u","m">>, calories_per_oz |-> 97],
       [key |-> <<"v","o","d","k","a">>, calories_per_oz |-> 64],
       [key |-> <<"g","i","n">>, calories_per_oz |-> 70],
       [key |-> <<"t","e","q","u","i","l","a">>, calories_per_oz |-> 69],
       [key |-> <<"w","h","i","s","k","e","y">>, calories_per_oz |-> 70],
       [key |-> <<"b","r","a","n","d","y">>, calories_per_oz |-> 65],
       [key |-> <<"t","r","i","p","l","e"," ","s","e","c">>, calories_per_oz |-> 75],
       [key |-> <<"l","i","m","e"," ","j","u","i","c","e">>, calories_per_oz |-> 8],
       [key |-> <<"s","i","m","p","l","e"," ","s","y","r","u","p">>, calories_per_oz |-> 53],
       [key |-> <<"s","o","d","a">>, calories_per_oz |-> 0] >>

\* The contribution of one ingredient whose amount is `amount` hundredths:
\* the first key of calorie_map found in the name decides, then break.
calories_of(ingredient, amount) ==
    LET name == name_of(ingredient)
        hits == {k \in 1..Len(calorie_map) : Contains(calorie_map[k].key, name)}
    IN IF hits = {} THEN 0
       ELSE int_of_product(
              calorie_map[CHOOSE k \in hits : \A j \in hits : k <= j].calories_per_oz,
              amount)

\* The loop of estimate_calories from ingredient i on, total so far `total`;
\* calories_step is one turn of it, `amount` the result of float().
RECURSIVE calories_loop(_, _, _)
RECURSIVE calories_step(_, _, _, _)
calories_step(i, ingredients, total, amount) ==
    IF amount.raised # "none" THEN [raised |-> amount.raised]
    ELSE calories_loop(i + 1, ingredients,
                       total + calories_of(ingredients[i], amount.value))

calories_loop(i, ingredients, total) ==
    IF i > Len(ingredients) THEN [raised |-> "none", value |-> total]
    ELSE calories_step(i, ingredients, total,
                       float(Get(ingredients[i], "amount", [num |-> 0])))

\* A faulty variant: it subtracts each contribution (total_calories -= ...).
RECURSIVE calories_loop_subtracting(_, _, _)
RECURSIVE calories_step_subtracting(_, _, _, _)
calories_step_subtracting(i, ingredients, total, amount) ==
    IF amount.raised # "none" THEN [raised |-> amount.raised]
    ELSE calories_loop_subtracting(i + 1, ingredients,
                       total - calories_of(ingredients[i], amount.value))

calories_loop_subtracting(i, ingredients, total) ==
    IF i > Len(ingredients) THEN [raised |-> "none", value |-> total]
    ELSE calories_step_subtracting(i, ingredients, total,
                       float(Get(ingredients[i], "amount", [num |-> 0])))

estimate_calories_subtracting(ingredients) ==
    calories_loop_subtracting(1, ingredients, 0)

estimate_calories(ingredients) == calories_loop(1, ingredients, 0)

\* A faulty variant: it returns the tag list as built, without list(set(tags)).
generate_tags_without_set(cocktail) ==
    LET category == lower(Get(cocktail, "category", <<>>))
        glass == lower(Get(cocktail, "glass", <<>>))
        ingredients == Get(cocktail, "ingredients", <<>>)
        spirit == identify_spirit_type(ingredients)
        instructions == lower(Get(cocktail, "instructions", <<>>))
        complexity == calculate_complexity_score(ingredients)
    IN (IF category # <<>> THEN <<category>> ELSE <<>>)
       \o (IF glass # <<>> THEN <<glass>> ELSE <<>>)
       \o (IF spirit # non_alcoholic THEN <<spirit>> ELSE <<>>)
       \o (IF Contains(<<"s","h","a","k","e">>, instructions) THEN <<<<"s","h","a","k","e","n">>>> ELSE <<>>)
       \o (IF Contains(<<"s","t","i","r">>, instructions) THEN <<<<"s","t","i","r","r","e","d">>>> ELSE <<>>)
       \o (IF Contains(<<"m","u","d","d","l","e">>, instructions) THEN <<<<"m","u","d","d","l","e","d">>>> ELSE <<>>)
       \o (IF complexity < 6 THEN <<<<"s","i","m","p","l","e">>>>
           ELSE IF complexity < 12 THEN <<<<"i","n","t","e","r","m","e","d","i","a","t","e">>>>
           ELSE <<<<"c","o","m","p","l","e","x">>>>)

generate_tags(cocktail) ==
    LET category == lower(Get(cocktail, "category", <<>>))
        glass == lower(Get(cocktail, "glass", <<>>))
        ingredients == Get(cocktail, "ingredients", <<>>)
        spirit == identify_spirit_type(ingredients)
        instructions == lower(Get(cocktail, "instructions", <<>>))
        complexity == calculate_complexity_score(ingredients)
        tags == (IF category # <<>> THEN <<category>> ELSE <<>>)
           \o (IF glass # <<>> THEN <<glass>> ELSE <<>>)
           \o (IF spirit # non_alcoholic THEN <<spirit>> ELSE <<>>)
           \o (IF Contains(<<"s","h","a","k","e">>, instructions) THEN <<<<"s","h","a","k","e","n">>>> ELSE <<>>)
           \o (IF Contains(<<"s","t","i","r">>, instructions) THEN <<<<"s","t","i","r","r","e","d">>>> ELSE <<>>)
           \o (IF Contains(<<"m","u","d","d","l","e">>, instructions) THEN <<<<"m","u","d","d","l","e","d">>>> ELSE <<>>)
           \o (IF complexity < 6 THEN <<<<"s","i","m","p","l","e">>>>
               ELSE IF complexity < 12 THEN <<<<"i","n","t","e","r","m","e","d","i","a","t","e">>>>
               ELSE <<<<"c","o","m","p","l","e","x">>>>)
    IN ListOfSet(Range(tags))

(****************************** Record enricher ****************************)

\* The fields enrich_single_cocktail assigns, `calories` the value
\* estimate_calories returned.
derived_fields(cocktail, now, calories) ==
    LET ingredients == Get(cocktail, "ingredients", <<>>)
        instructions == Get(cocktail, "instructions", <<>>)
    IN [enriched_at |-> now,
        ingredient_count |-> Len(ingredients),
        complexity_score |-> calculate_complexity_score(ingredients),
        instruction_word_count |-> WordCount(instructions),
        estimated_prep_time |-> estimate_prep_time(ingredients, instructions),
        is_alcoholic |->
            Contains(<<"r","u","m">>, Join(<<" ">>, [i \in 1..Len(ingredients) |->
                                           name_of(ingredients[i])])),
        spirit_type |-> identify_spirit_type(ingredients),
        estimated_calories |-> calories,
        tags |-> generate_tags(cocktail)]

\* d with the items of `items` assigned, key by key.
Assigned(d, items) ==
    [k \in DOMAIN d \cup DOMAIN items |->
        IF k \in DOMAIN items THEN items[k] ELSE d[k]]

\* A faulty variant: it works on the caller's mapping (enriched = cocktail, no copy).
enriched_in_place(cocktail, now, calories) ==
    IF calories.raised # "none"
    THEN [raised |-> calories.raised, arg |-> cocktail]
    ELSE [raised |-> "none",
          value |-> Assigned(cocktail, derived_fields(cocktail, now, calories.value)),
          arg |-> Assigned(cocktail, derived_fields(cocktail, now, calories.value))]

enrich_single_cocktail_in_place(cocktail, now) ==
    enriched_in_place(cocktail, now,
                      estimate_calories(Get(cocktail, "ingredients", <<>>)))

\* enrich_single_cocktail once estimate_calories has returned or raised.
enriched_copy(cocktail, now, calories) ==
    IF calories.raised # "none"
    THEN [raised |-> calories.raised, arg |-> cocktail]
    ELSE [raised |-> "none",
          value |-> Assigned(cocktail, derived_fields(cocktail, now, calories.value)),
          arg |-> cocktail]

\* value is the returned record, arg the caller's mapping after the call.
\* `now` is the reading of datetime.now().
enrich_single_cocktail(cocktail, now) ==
    enriched_copy(cocktail, now,
                  estimate_calories(Get(cocktail, "ingredients", <<>>)))

(********************************* Inputs **********************************)

MaxIngredients == 3

MaxDeepIngredients == 6

MaxSteps == 13

MaxRecords == 2

SeqsUpTo(S, n) == UNION {[1..k -> S] : k \in 0..n}

LightRum == [name |-> <<"L","i","g","h","t"," ","R","u","m">>, amount |-> [num |-> 200]]

LimeJuice == [name |-> <<"L","i","m","e"," ","J","u","i","c","e">>, amount |-> [num |-> 100]]

SimpleSyrup == [name |-> <<"S","i","m","p","l","e"," ","S","y","r","u","p">>, amount |-> [num |-> 75]]

Gin == [name |-> <<"G","i","n">>]

Vodka == [name |-> <<"V","o","d","k","a">>, amount |-> [str |-> <<"1"," ","o","z">>]]

TripleSec == [name |-> <<"T","r","i","p","l","e"," ","S","e","c">>, amount |-> [num |-> 0 - 100]]

OrgeatLimeJuice == [name |-> <<"O","r","g","e","a","t"," ","L","i","m","e"," ","J","u","i","c","e">>, amount |-> [str |-> <<" ","2",".","5">>]]

Unnamed == [amount |-> [null |-> TRUE]]

IngredientPool ==
    {LightRum, LimeJuice, SimpleSyrup, Gin, Vodka, TripleSec, OrgeatLimeJuice,
     Unnamed}

Mojito ==
    [name |-> <<"M","o","j","i","t","o">>, category |-> <<"C","o","c","k","t","a","i","l">>, glass |-> <<"H","i","g","h","b","a","l","l"," ","g","l","a","s","s">>,
     instructions |-> <<"S","h","a","k","e"," ","a","l","l"," ","i","n","g","r","e","d","i","e","n","t","s"," ","w","i","t","h"," ","i","c","e","."," ","S","t","r","a","i","n"," ","i","n","t","o"," ","g","l","a","s","s",".">>]

\* The fields of a recipe other than its ingredients.
RecipeShells ==
    { <<>>,
      Mojito,
      [category |-> <<"C","o","c","k","t","a","i","l">>, glass |-> <<"C","O","C","K","T","A","I","L">>, instructions |-> <<"S","t","i","r">>],
      [category |-> <<"C","o","m","p","l","e","x">>, glass |-> <<>>, instructions |-> <<"M","u","d","d","l","e"," ","m","i","n","t",";"," ","s","h","a","k","e",".">>],
      [category |-> <<"R","u","m">>, instructions |-> <<"S","t","i","r","."," "," ","S","e","r","v","e">>,
       tags |-> <<<<"c","l","a","s","s","i","c">>>>, ingredient_count |-> 99] }

VariedRecipes ==
    RecipeShells \cup
    {Put(shell, "ingredients", ingredients) :
        shell \in RecipeShells,
        ingredients \in SeqsUpTo(IngredientPool, MaxIngredients)}

DeepRecipes ==
    {[ingredients |-> ingredients] :
        ingredients \in SeqsUpTo({OrgeatLimeJuice, Gin}, MaxDeepIngredients)}

RECURSIVE Repeat(_, _)
Repeat(s, n) == IF n = 0 THEN <<>> ELSE s \o Repeat(s, n - 1)

LongRecipes ==
    {[instructions |-> prefix \o Repeat(step, n)] :
        prefix \in {<<>>, <<"M","u","d","d","l","e">>, <<"S","H","A","K","E">>, <<"M","u","d","d","l","e"," ","t","h","e","n"," ","s","h","a","k","e">>},
        step \in {<<".">>, <<";"," ">>},
        n \in 0..MaxSteps}

RecipeInputs == VariedRecipes \cup DeepRecipes \cup LongRecipes

(************************** Derivers, one at a time ************************)

NoCall == [fn |-> "none"]

InitHandlerIdle ==
    /\ pc = "start"
    /\ event = <<>>
    /\ cocktail_data = <<>>
    /\ enriched_data = <<>>
    /\ s3_output = <<>>
    /\ dynamodb_item = <<>>
    /\ response = <<>>
    /\ raised = "none"
    /\ trace = <<>>
    /\ log = <<>>
    /\ clock = 0

InitEnrich ==
    /\ InitHandlerIdle
    /\ recipe \in RecipeInputs
    /\ ret = NoCall

CallComplexityScore ==
    /\ ret = NoCall
    /\ ret' = [fn |-> "calculate_complexity_score", raised |-> "none",
               value |-> calculate_complexity_score(
                            Get(recipe, "ingredients", <<>>))]
    /\ UNCHANGED <<recipe, handler_vars>>

CallPrepTime ==
    /\ ret = NoCall
    /\ ret' = [fn |-> "estimate_prep_time", raised |-> "none",
               value |-> estimate_prep_time(
                            Get(recipe, "ingredients", <<>>),
                            Get(recipe, "instructions", <<>>))]
    /\ UNCHANGED <<recipe, handler_vars>>

CallSpiritType ==
    /\ ret = NoCall
    /\ ret' = [fn |-> "identify_spirit_type", raised |-> "none",
               value |-> identify_spirit_type(Get(recipe, "ingredients", <<>>))]
    /\ UNCHANGED <<recipe, handler_vars>>

\* What a call of fn leaves to its caller: the value or the exception.
Returned(fn, r) ==
    IF r.raised = "none"
    THEN [fn |-> fn, raised |-> "none", value |-> r.value]
    ELSE [fn |-> fn, raised |-> r.raised]

CallCalories ==
    /\ ret = NoCall
    /\ ret' = Returned("estimate_calories",
                       estimate_calories(Get(recipe, "ingredients", <<>>)))
    /\ UNCHANGED <<recipe, handler_vars>>

CallTags ==
    /\ ret = NoCall
    /\ ret' = [fn |-> "generate_tags", raised |-> "none",
               value |-> generate_tags(recipe)]
    /\ UNCHANGED <<recipe, handler_vars>>

Enriched(r) ==
    /\ ret' = Returned("enrich_single_cocktail", r)
    /\ recipe' = r.arg

CallEnrich ==
    /\ ret = NoCall
    /\ Enriched(enrich_single_cocktail(recipe, clock + 1))
    /\ clock' = clock + 1
    /\ UNCHANGED <<pc, event, cocktail_data, enriched_data, s3_output,
                   dynamodb_item, response, raised, trace, log>>

NextEnrich ==
    \/ CallComplexityScore
    \/ CallPrepTime
    \/ CallSpiritType
    \/ CallCalories
    \/ CallTags
    \/ CallEnrich

SpecEnrich == InitEnrich /\ [][NextEnrich]_vars

(********************************* Handler *********************************)

\* The recipes a stored collection is made of.
PipelineRecipes ==
    { <<>>,
      Put(Mojito, "ingredients", <<LightRum, LimeJuice, SimpleSyrup>>),
      [name |-> <<"G","i","m","l","e","t">>, ingredients |-> <<Gin, LimeJuice>>,
       instructions |-> <<"S","t","i","r",".">>, ingredient_count |-> 99],
      [name |-> <<"M","u","l","e">>, ingredients |-> <<Vodka>>] }

\* The JSON document under the input key: a list, or a single object.
StoredDocuments ==
    {[list |-> data] : data \in SeqsUpTo(PipelineRecipes, MaxRecords)}
    \cup {[object |-> data] : data \in PipelineRecipes}

Events ==
    { <<>>,
      [input_bucket |-> <<"i","n">>, output_bucket |-> <<"o","u","t">>,
       date_partition |-> <<"2","0","2","4","/","0","1","/","1","5">>] }

\* datetime.now().strftime('%Y/%m/%d')
Today == <<"2","0","2","4","/","0","6","/","0","1">>

input_bucket == Get(event, "input_bucket", <<"m","o","c","k","t","a","i","l","v","e","r","s","e","-","p","r","o","c","e","s","s","e","d","-","d","a","t","a">>)

output_bucket == Get(event, "output_bucket", <<"m","o","c","k","t","a","i","l","v","e","r","s","e","-","p","r","o","c","e","s","s","e","d","-","d","a","t","a">>)

date_partition == Get(event, "date_partition", Today)

input_key ==
    <<"t","r","a","n","s","f","o","r","m","e","d","/">> \o date_partition \o <<"/","t","r","a","n","s","f","o","r","m","e","d","_","c","o","c","k","t","a","i","l","_","d","a","t","a",".","j","s","o","n">>

output_key == <<"e","n","r","i","c","h","e","d","/">> \o date_partition \o <<"/","e","n","r","i","c","h","e","d","_","c","o","c","k","t","a","i","l","_","d","a","t","a",".","j","s","o","n">>

Init ==
    /\ InitHandlerIdle
    /\ recipe = <<>>
    /\ ret = NoCall

\* lambda_handler up to the return of read_from_s3: the event is received,
\* its parameters are extracted and the input document is fetched and parsed.
read_from_s3 ==
    /\ pc = "start"
    /\ trace = <<>>
    /\ \E ev \in Events :
        /\ event' = ev
        /\ \/ \E doc \in StoredDocuments :
                /\ cocktail_data' =
                       IF "list" \in DOMAIN doc THEN doc.list ELSE <<doc.object>>
                /\ pc' = "enrich"
                /\ raised' = "none"
                /\ log' = log \o <<"info: starting">>
           \/ /\ raised' = "ClientError"
              /\ pc' = "raised"
              /\ log' = log \o <<"info: starting", "error: reading from S3",
                                 "error: in Lambda transformation">>
              /\ UNCHANGED cocktail_data
           \/ /\ raised' = "JSONDecodeError"
              /\ pc' = "raised"
              /\ log' = log \o <<"info: starting",
                                 "error: in Lambda transformation">>
              /\ UNCHANGED cocktail_data
    /\ trace' = Append(trace, "read_from_s3")
    /\ clock' = clock + 1
    /\ UNCHANGED <<enriched_data, s3_output, dynamodb_item, response,
                   deriver_vars>>

\* The end of the loop of enrich_cocktail_data, `results` the outcome of
\* enrich_single_cocktail on each record and `failing` the records it raised
\* on: the first one that raises ends the loop and the handler.
enrich_loop(results, failing) ==
    IF failing = {}
    THEN /\ enriched_data' = [i \in 1..Len(cocktail_data) |-> results[i].value]
         /\ cocktail_data' = [i \in 1..Len(cocktail_data) |-> results[i].arg]
         /\ clock' = clock + Len(cocktail_data)
         /\ pc' = "write"
         /\ UNCHANGED <<raised, log>>
    ELSE /\ raised' = results[CHOOSE i \in failing : \A j \in failing : i <= j].raised
         /\ cocktail_data' =
               [i \in 1..Len(cocktail_data) |->
                   IF \A j \in failing : i <= j THEN results[i].arg
                   ELSE cocktail_data[i]]
         /\ clock' = clock + (CHOOSE i \in failing : \A j \in failing : i <= j)
         /\ pc' = "raised"
         /\ log' = Append(log, "error: in Lambda transformation")
         /\ UNCHANGED enriched_data

enrich_results(results) ==
    enrich_loop(results,
                {i \in 1..Len(cocktail_data) : results[i].raised # "none"})

\* The records are enriched in order.
enrich_cocktail_data ==
    /\ pc = "enrich"
    /\ enrich_results([i \in 1..Len(cocktail_data) |->
                          enrich_single_cocktail(cocktail_data[i], clock + i)])
    /\ trace' = Append(trace, "enrich_cocktail_data")
    /\ UNCHANGED <<event, s3_output, dynamodb_item, response, deriver_vars>>

\* A faulty variant: it logs a failed put_object and carries on.
write_to_s3_swallowing ==
    /\ pc = "write"
    /\ \/ /\ s3_output' = [Bucket |-> output_bucket, Key |-> output_key,
                           Body |-> enriched_data,
                           ContentType |-> <<"a","p","p","l","i","c","a","t","i","o","n","/","j","s","o","n">>]
          /\ log' = Append(log, "info: wrote data")
       \/ /\ log' = Append(log, "error: writing to S3")
          /\ UNCHANGED s3_output
    /\ pc' = "summary"
    /\ trace' = Append(trace, "write_to_s3")
    /\ UNCHANGED <<event, cocktail_data, enriched_data, dynamodb_item,
                   response, raised, clock, deriver_vars>>

\* Body stands for the JSON text of the collection.
write_to_s3 ==
    /\ pc = "write"
    /\ \/ /\ s3_output' = [Bucket |-> output_bucket, Key |-> output_key,
                           Body |-> enriched_data,
                           ContentType |-> <<"a","p","p","l","i","c","a","t","i","o","n","/","j","s","o","n">>]
          /\ pc' = "summary"
          /\ log' = Append(log, "info: wrote data")
          /\ UNCHANGED raised
       \/ /\ raised' = "ClientError"
          /\ pc' = "raised"
          /\ log' = log \o <<"error: writing to S3",
                             "error: in Lambda transformation">>
          /\ UNCHANGED s3_output
    /\ trace' = Append(trace, "write_to_s3")
    /\ UNCHANGED <<event, cocktail_data, enriched_data, dynamodb_item,
                   response, clock, deriver_vars>>

\* The item write_processing_summary builds; the division by len(data)
\* raises on an empty collection.  avg_complexity is kept as the quotient
\* of the sum of the scores (in halves) by twice the number of records.
summary_item(data, now) ==
    IF Len(data) = 0 THEN [raised |-> "ZeroDivisionError"]
    ELSE [raised |-> "none",
          value |->
            [date_partition |-> [S |-> date_partition],
             processed_at |-> [S |-> now],
             record_count |-> [N |-> str_int(Len(data))],
             total_ingredients |->
                [N |-> str_int(SumSeq([i \in 1..Len(data) |->
                                  Get(data[i], "ingredient_count", 0)]))],
             avg_complexity |->
                [N |-> [sum |-> SumSeq([i \in 1..Len(data) |->
                                  Get(data[i], "complexity_score", 0)]),
                        by |-> 2 * Len(data)]]]]

\* write_processing_summary and the rest of lambda_handler: a ClientError of
\* put_item is logged as a warning and swallowed, any other exception leaves
\* through the handler's except clause, which logs and re-raises.
write_processing_summary ==
    /\ pc = "summary"
    /\ LET summary == summary_item(enriched_data, clock + 1)
       IN IF summary.raised # "none"
          THEN /\ raised' = summary.raised
               /\ pc' = "raised"
               /\ log' = Append(log, "error: in Lambda transformation")
               /\ UNCHANGED <<dynamodb_item, response>>
          ELSE /\ \/ /\ dynamodb_item' = summary.value
                     /\ log' = Append(log, "info: processed")
                  \/ /\ log' = log \o <<"warning: could not write summary",
                                        "info: processed">>
                     /\ UNCHANGED dynamodb_item
               /\ response' =
                    [statusCode |-> 200,
                     body |-> [message |-> <<"D","a","t","a"," ","e","n","r","i","c","h","m","e","n","t"," ","c","o","m","p","l","e","t","e","d"," ","s","u","c","c","e","s","s","f","u","l","l","y">>,
                               records_processed |-> Len(enriched_data),
                               output_location |->
                                  <<"s","3",":","/","/">> \o output_bucket \o <<"/">> \o output_key]]
               /\ pc' = "returned"
               /\ UNCHANGED raised
    /\ clock' = clock + 1
    /\ trace' = Append(trace, "write_processing_summary")
    /\ UNCHANGED <<event, cocktail_data, enriched_data, s3_output,
                   deriver_vars>>

Next ==
    \/ read_from_s3
    \/ enrich_cocktail_data
    \/ write_to_s3
    \/ write_processing_summary

Spec == Init /\ [][Next]_vars

(***************************** Zero-record batch ***************************)

SummaryAttempted == "write_processing_summary" \in Range(trace)

\* C1: for a batch of zero records write_processing_summary does not raise
\* and lambda_handler returns status 200 with records_processed = 0.
C1_EmptyBatchSucceeds ==
    (SummaryAttempted /\ cocktail_data = <<>>)
        => /\ pc = "returned"
           /\ response.statusCode = 200
           /\ response.body.records_processed = 0

\* C2: once the enriched collection is stored, no failure of the summary
\* step reaches the caller: the handler returns the success response.
C2_SummaryFailureSwallowed ==
    (SummaryAttempted /\ "Body" \in DOMAIN s3_output)
        => /\ raised = "none"
           /\ pc = "returned"
           /\ response.statusCode = 200

(****************************** Step ordering ******************************)

StepOrder ==
    <<"read_from_s3", "enrich_cocktail_data", "write_to_s3",
      "write_processing_summary">>

\* C4: the steps run in the order load, enrich, store, summary; a failed
\* load leaves both stores undone, a failed store leaves the summary
\* unattempted, and in both cases the failure reaches the caller and no
\* response is returned.
C4_MandatoryStepsAbort ==
    /\ Len(trace) <= Len(StepOrder)
    /\ trace = SubSeq(StepOrder, 1, Len(trace))
    /\ pc = "raised" => (raised # "none" /\ response = <<>>)
    /\ (pc = "raised" /\ Len(trace) = 1)
          => (s3_output = <<>> /\ dynamodb_item = <<>>)
    /\ (pc = "raised" /\ Len(trace) = 3)
          => (s3_output = <<>> /\ dynamodb_item = <<>>)
    /\ SummaryAttempted => "Body" \in DOMAIN s3_output
    /\ dynamodb_item # <<>> => "Body" \in DOMAIN s3_output
    /\ response # <<>> => (pc = "returned" /\ raised = "none")

\* The enriched store failed and the handler stopped there.
C4_Witness ==
    /\ pc = "raised"
    /\ trace = SubSeq(StepOrder, 1, 3)
    /\ raised = "ClientError"

(**************************** Deriver properties ***************************)

Ingredients == Get(recipe, "ingredients", <<>>)

Unparsable(ingredient) ==
    float(Get(ingredient, "amount", [num |-> 0])).raised # "none"

\* The list with every amount float() rejects replaced by 0.
WithZeroForUnparsable(ingredients) ==
    [i \in 1..Len(ingredients) |->
        IF Unparsable(ingredients[i])
        THEN Put(ingredients[i], "amount", [num |-> 0])
        ELSE ingredients[i]]

\* C3: an absent or unparsable amount counts as 0; estimate_calories
\* returns and enrichment of the record is not aborted.
C3_MalformedAmountIsZero ==
    /\ ret.fn = "estimate_calories"
          => /\ ret.raised = "none"
             /\ ret.value =
                  estimate_calories(WithZeroForUnparsable(Ingredients)).value
    /\ ret.fn = "enrich_single_cocktail" => ret.raised = "none"

Levels == {<<"s","i","m","p","l","e">>, <<"i","n","t","e","r","m","e","d","i","a","t","e">>, <<"c","o","m","p","l","e","x">>}

NoDuplicates(s) == \A i, j \in 1..Len(s) : i # j => s[i] # s[j]

\* C5 as stated: for every recipe the tags have no duplicate and contain
\* exactly one of simple, intermediate, complex.
C5_ExactlyOneLevelAlways ==
    ret.fn = "generate_tags"
        => /\ NoDuplicates(ret.value)
           /\ Cardinality(Range(ret.value) \cap Levels) = 1

\* C5, amended: the tags have no duplicate and contain at least one of
\* simple, intermediate, complex, and exactly one when neither the
\* lowercased category nor the lowercased glass is one of these strings.
C5_ExactlyOneLevelUnlessNamed ==
    ret.fn = "generate_tags"
        => /\ NoDuplicates(ret.value)
           /\ Range(ret.value) \cap Levels # {}
           /\ (/\ lower(Get(recipe, "category", <<>>)) \notin Levels
               /\ lower(Get(recipe, "glass", <<>>)) \notin Levels)
                 => Cardinality(Range(ret.value) \cap Levels) = 1

\* Category and glass give the same tag, which is kept once.
C5_Witness ==
    /\ ret.fn = "generate_tags"
    /\ Get(recipe, "category", <<>>) # <<>>
    /\ Get(recipe, "category", <<>>) # Get(recipe, "glass", <<>>)
    /\ lower(Get(recipe, "category", <<>>)) = lower(Get(recipe, "glass", <<>>))
    /\ Len(Ingredients) > 0

\* C6: the complexity score is within [0.0, 10.0] (0 to 20 halves) and the
\* preparation time within [3, 15].
C6_ScoreAndPrepTimeInRange ==
    /\ ret.fn = "calculate_complexity_score"
          => (0 <= ret.value /\ ret.value <= 20)
    /\ ret.fn = "estimate_prep_time"
          => (3 <= ret.value /\ ret.value <= 15)

\* The terms of the score add up to more than 10.0 and the cap applies.
C6_Witness ==
    /\ ret.fn = "calculate_complexity_score"
    /\ ret.value = 20
    /\ Cardinality({i \in 1..Len(Ingredients) :
          /\ AnyIn(specialty_ingredients, name_of(Ingredients[i]))
          /\ AnyIn(fresh_indicators, name_of(Ingredients[i]))}) >= 6

KeyMatches(k, ingredients) ==
    \E i \in 1..Len(ingredients) :
        \E w \in Range(spirit_map[k].keywords) :
            Contains(w, lower(Get(ingredients[i], "name", <<>>)))

\* C7: identify_spirit_type returns the first key of the fixed order that
\* some ingredient matches, wherever that ingredient stands in the list,
\* and non-alcoholic exactly when no ingredient matches any key.
C7_FirstKeyWins ==
    ret.fn = "identify_spirit_type"
        => LET matching == {k \in 1..Len(spirit_map) : KeyMatches(k, Ingredients)}
           IN /\ (ret.value = non_alcoholic) <=> (matching = {})
              /\ \A k \in matching :
                    (\A j \in matching : k <= j) => ret.value = spirit_map[k].spirit

\* The first ingredient is a gin, a later one a vodka, and vodka is returned.
C7_Witness ==
    /\ ret.fn = "identify_spirit_type"
    /\ Len(Ingredients) >= 2
    /\ AnyIn(spirit_map[2].keywords, name_of(Ingredients[1]))
    /\ ~AnyIn(spirit_map[1].keywords, name_of(Ingredients[1]))
    /\ ret.value = spirit_map[1].spirit

AmountsAreNumbers(ingredients) ==
    \A i \in 1..Len(ingredients) :
        "num" \in DOMAIN Get(ingredients[i], "amount", [num |-> 0])

\* C8 as stated: for every list whose amounts are numbers the estimate is
\* greater than or equal to 0.
C8_NonNegativeForNumbers ==
    (ret.fn = "estimate_calories" /\ AmountsAreNumbers(Ingredients))
        => (ret.raised = "none" /\ ret.value >= 0)

\* C8, amended: for every list whose amounts are numbers greater than or
\* equal to 0 the estimate is greater than or equal to 0.
C8_NonNegativeForNonNegativeNumbers ==
    (/\ ret.fn = "estimate_calories"
     /\ AmountsAreNumbers(Ingredients)
     /\ \A i \in 1..Len(Ingredients) :
           Get(Ingredients[i], "amount", [num |-> 0]).num >= 0)
        => (ret.raised = "none" /\ ret.value >= 0)

\* 2 of rum, 1 of lime juice, 0.75 of syrup: 194 + 8 + 39.
C8_Witness ==
    /\ ret.fn = "estimate_calories"
    /\ Ingredients = <<LightRum, LimeJuice, SimpleSyrup>>
    /\ ret.raised = "none"
    /\ ret.value = 241

DerivedFieldNames ==
    {"enriched_at", "ingredient_count", "complexity_score",
     "instruction_word_count", "estimated_prep_time", "is_alcoholic",
     "spirit_type", "estimated_calories", "tags"}

EnrichReturns ==
    /\ ret = NoCall
    /\ ret'.fn = "enrich_single_cocktail"
    /\ ret'.raised = "none"

\* C9 as stated: the input mapping is unmodified and every field of the
\* input is in the returned record with the value it has in the input; the
\* only other fields are the derived ones.
C9_EveryInputFieldKept ==
    [][EnrichReturns =>
          /\ recipe' = recipe
          /\ DOMAIN ret'.value = DOMAIN recipe \cup DerivedFieldNames
          /\ \A k \in DOMAIN recipe : ret'.value[k] = recipe[k]]_vars

\* C9, amended: the input mapping is unmodified and every field of the
\* input whose name is not the name of a derived field is in the returned
\* record with the value it has in the input; the only other fields are the
\* derived ones, which are assigned over any input field of the same name.
C9_EveryOtherInputFieldKept ==
    [][EnrichReturns =>
          /\ recipe' = recipe
          /\ DOMAIN ret'.value = DOMAIN recipe \cup DerivedFieldNames
          /\ \A k \in DOMAIN recipe \ DerivedFieldNames :
                ret'.value[k] = recipe[k]]_vars

\* A record with base fields has been enriched.
C9_Witness ==
    /\ ret.fn = "enrich_single_cocktail"
    /\ ret.raised = "none"
    /\ {"name", "category", "glass", "instructions", "ingredients"}
          \subseteq DOMAIN recipe
    /\ ret.value.name = recipe.name

JoinedNames ==
    Join(<<" ">>, [i \in 1..Len(Ingredients) |-> name_of(Ingredients[i])])

\* C10: is_alcoholic implies spirit_type # non-alcoholic: whenever the
\* joined lowercased names contain rum, identify_spirit_type returns one of
\* the six spirit keys.
C10_AlcoholicHasSpirit ==
    /\ (/\ ret.fn = "enrich_single_cocktail"
        /\ ret.raised = "none"
        /\ ret.value.is_alcoholic)
          => ret.value.spirit_type # non_alcoholic
    /\ (ret.fn = "identify_spirit_type" /\ Contains(<<"r","u","m">>, JoinedNames))
          => ret.value \in {spirit_map[k].spirit : k \in 1..Len(spirit_map)}

\* A rum and a gin: the flag is set and the spirit is the earlier key, gin.
C10_Witness ==
    /\ ret.fn = "enrich_single_cocktail"
    /\ ret.raised = "none"
    /\ ret.value.is_alcoholic
    /\ ret.value.spirit_type = <<"g","i","n">>

====
